---------------------------- MODULE Spec2Model ----------------------------
(***************************************************************************)
(* Model of src/app.py: a Flask service in front of Google Sheets.         *)
(*                                                                         *)
(* Python values are records [t, s, items]: t is the Python type, s the    *)
(* characters of str(value) (one character per element), items the         *)
(* elements of a list.  A grid read from the store is a sequence of rows,  *)
(* each a sequence of cell values.  The store keeps what is written to it  *)
(* as written: how Sheets itself interprets USER_ENTERED input and         *)
(* evaluates formulas is outside src/app.py.                               *)
(***************************************************************************)
EXTENDS Integers, Sequences, FiniteSets, TLC

VARIABLES
    master,        \* rows of the first tab of the Master Config spreadsheet
    spreadsheets,  \* spreadsheet id -> its worksheets: [title, formula, display]
    req,           \* per request: the HTTP request being served
    pc,            \* per request: the position of its handler
    record,        \* per request: handler local `record`
    current,       \* per request: the grid as get_values returned it
    written,       \* per request: the grid handed to ws.update, once it was
    wrote,         \* per request: whether ws.update was issued
    calls,         \* the remote calls issued so far, in order, each with its request
    resp,          \* per request: the HTTP response, once there is one
    now,           \* wall clock, in seconds
    loadedAt,      \* time of the last remote read of the Master Config
    loaded,        \* records returned by that read
    reads,         \* number of remote reads of the Master Config so far
    listing        \* observations of the GET /companies calls served

vars == <<master, spreadsheets, req, pc, record, current, written, wrote,
          calls, resp, now, loadedAt, loaded, reads, listing>>

---------------------------------------------------------------------------
(* Bounds of the model *)

MaxRows == 2
MaxCells == 3
MaxStrLen == 3
MaxCalls == 3
MaxTime == 120

---------------------------------------------------------------------------
(* Python values *)

StrVal(chars) == [t |-> "str", s |-> chars, items |-> <<>>]
IntVal(chars) == [t |-> "int", s |-> chars, items |-> <<>>]
ListVal(elems) == [t |-> "list", s |-> <<>>, items |-> elems]
PyTrue == [t |-> "bool", s |-> <<"T", "r", "u", "e">>, items |-> <<>>]
PyFalse == [t |-> "bool", s |-> <<"F", "a", "l", "s", "e">>, items |-> <<>>]
PyNone == [t |-> "none", s |-> <<"N", "o", "n", "e">>, items |-> <<>>]
EmptyStr == StrVal(<<>>)

Min(a, b) == IF a < b THEN a ELSE b

\* isinstance(v, list)
IsList(v) == v.t = "list"

\* whether len(v) and v[i] are defined; otherwise they raise TypeError
HasLen(v) == v.t \in {"list", "str"}

\* len(v)
PyLen(v) == IF v.t = "list" THEN Len(v.items) ELSE Len(v.s)

\* v[i], i counted from 0
PyIndex(v, i) == IF v.t = "list" THEN v.items[i + 1] ELSE StrVal(<<v.s[i + 1]>>)

\* str(v)
PyStr(v) == v.s

\* isinstance(v, str) and v.startswith("=")
IsFormula(v) == v.t = "str" /\ Len(v.s) > 0 /\ v.s[1] = "="

\* a grid as the JSON array of arrays a client sends
ToPy(grid) == ListVal([r \in DOMAIN grid |-> ListVal(grid[r])])

---------------------------------------------------------------------------
(* str.strip, str.replace(",", ""), float(str) *)

Whitespace == {" ", "\t", "\n"}
Digits == {"0", "1", "2", "3", "4", "5", "6", "7", "8", "9"}
Signs == {"+", "-"}

RECURSIVE LStrip(_)
LStrip(s) == IF s # <<>> /\ Head(s) \in Whitespace THEN LStrip(Tail(s)) ELSE s

RECURSIVE RStrip(_)
RStrip(s) ==
    IF s # <<>> /\ s[Len(s)] \in Whitespace
    THEN RStrip(SubSeq(s, 1, Len(s) - 1))
    ELSE s

Strip(s) == RStrip(LStrip(s))

NotComma(ch) == ch # ","
RemoveCommas(s) == SelectSeq(s, NotComma)

Lower(ch) ==
    CASE ch = "I" -> "i" [] ch = "N" -> "n" [] ch = "F" -> "f"
      [] ch = "A" -> "a" [] ch = "T" -> "t" [] ch = "Y" -> "y"
      [] OTHER -> ch

LowerSeq(s) == [i \in DOMAIN s |-> Lower(s[i])]

\* the index after the digits (single underscores allowed between two
\* digits) that start at i; i itself when no digit starts there
RECURSIVE DigitPartEnd(_, _)
DigitPartEnd(s, i) ==
    IF i <= Len(s) /\ s[i] \in Digits
    THEN IF i + 1 <= Len(s) /\ s[i + 1] \in Digits
         THEN DigitPartEnd(s, i + 1)
         ELSE IF i + 2 <= Len(s) /\ s[i + 1] = "_" /\ s[i + 2] \in Digits
              THEN DigitPartEnd(s, i + 2)
              ELSE i + 1
    ELSE i

\* the index after the mantissa that starts at i; 0 when none does
MantissaEnd(s, i) ==
    LET a == DigitPartEnd(s, i) IN
    IF a > i
    THEN IF a <= Len(s) /\ s[a] = "." THEN DigitPartEnd(s, a + 1) ELSE a
    ELSE IF i <= Len(s) /\ s[i] = "." /\ DigitPartEnd(s, i + 1) > i + 1
         THEN DigitPartEnd(s, i + 1)
         ELSE 0

\* the index after the number that starts at i; 0 when none does
FloatNumberEnd(s, i) ==
    LET m == MantissaEnd(s, i) IN
    IF m = 0 THEN 0
    ELSE IF m <= Len(s) /\ s[m] \in {"e", "E"}
         THEN LET j == IF m + 1 <= Len(s) /\ s[m + 1] \in Signs
                       THEN m + 2 ELSE m + 1
                  k == DigitPartEnd(s, j)
              IN IF k > j THEN k ELSE 0
         ELSE m

SpecialFloats ==
    { <<"i", "n", "f">>, <<"n", "a", "n">>,
      <<"i", "n", "f", "i", "n", "i", "t", "y">> }

\* whether float(s) returns (rather than raising ValueError)
PyFloatOK(s) ==
    LET t == Strip(s)
        start == IF t # <<>> /\ t[1] \in Signs THEN 2 ELSE 1
        body == SubSeq(t, start, Len(t))
    IN /\ body # <<>>
       /\ \/ LowerSeq(body) \in SpecialFloats
          \/ FloatNumberEnd(t, start) = Len(t) + 1

---------------------------------------------------------------------------
(* The editable mask of get_company_sheet *)

\* the mask taken from the rendered value instead of the formula view
MaskCellFromDisplay(disp, form) == IF IsFormula(disp) THEN FALSE ELSE TRUE

\* one cell of the mask: False for a formula, True otherwise
MaskCell(disp, form) == IF IsFormula(form) THEN FALSE ELSE TRUE

\* zip(row_disp, row_form) stops at the shorter of the two
MaskRow(row_disp, row_form) ==
    [c \in 1..Min(Len(row_disp), Len(row_form)) |->
        MaskCell(row_disp[c], row_form[c])]

BuildMask(values_display, values_formula) ==
    [r \in 1..Min(Len(values_display), Len(values_formula)) |->
        MaskRow(values_display[r], values_formula[r])]

---------------------------------------------------------------------------
(* The merge of update_company_sheet; r and c count from 0 as in the code *)

\* editable[r][c] == True, which the numbers 1 and 1.0 satisfy as well
IsTrueEq(v) ==
    \/ v = PyTrue
    \/ v.t \in {"int", "float"} /\ v.s \in {<<"1">>, <<"1", ".", "0">>}

\* editable[r][c] is True
IsTrue(v) == v = PyTrue

CanEdit(editable, r, c) ==
    /\ r < PyLen(editable)
    /\ c < PyLen(PyIndex(editable, r))
    /\ IsTrue(PyIndex(PyIndex(editable, r), c))

\* cols = min(len(current[r]), len(new_values[r]))
MergeColCount(row, newRow) == Min(Len(row), PyLen(newRow))

\* the inner loop, from column c on
RECURSIVE MergeCols(_, _, _, _, _, _)
MergeCols(row, newRow, editable, r, c, cols) ==
    IF c >= cols THEN row
    ELSE MergeCols(IF CanEdit(editable, r, c)
                   THEN [row EXCEPT ![c + 1] = PyIndex(newRow, c)]
                   ELSE row,
                   newRow, editable, r, c + 1, cols)

\* whether row r of the loop raises TypeError: len() of a row of new_values
\* or of editable that has no length
RowRaises(row, new_values, editable, r) ==
    \/ ~HasLen(PyIndex(new_values, r))
    \/ /\ MergeColCount(row, PyIndex(new_values, r)) > 0
       /\ r < PyLen(editable)
       /\ ~HasLen(PyIndex(editable, r))

\* the outer loop, from row r on
RECURSIVE MergeRows(_, _, _, _, _)
MergeRows(cur, new_values, editable, r, rows) ==
    IF r >= rows THEN [raised |-> FALSE, grid |-> cur]
    ELSE IF RowRaises(cur[r + 1], new_values, editable, r)
         THEN [raised |-> TRUE, grid |-> cur]
         ELSE MergeRows(
                [cur EXCEPT ![r + 1] =
                    MergeCols(cur[r + 1], PyIndex(new_values, r), editable, r, 0,
                              MergeColCount(cur[r + 1], PyIndex(new_values, r)))],
                new_values, editable, r + 1, rows)

\* rows = min(len(current), len(new_values))
MergeRowCount(cur, new_values) == Min(Len(cur), PyLen(new_values))

\* the merge handing back only the rows it went through
MergeTruncated(cur, new_values, editable) ==
    LET m == MergeRows(cur, new_values, editable, 0, MergeRowCount(cur, new_values))
    IN [raised |-> m.raised,
        grid |-> SubSeq(m.grid, 1, MergeRowCount(cur, new_values))]

Merge(cur, new_values, editable) ==
    MergeRows(cur, new_values, editable, 0, MergeRowCount(cur, new_values))

---------------------------------------------------------------------------
(* The cleaned matrix of clone_company_sheet *)

\* the cleaning with float(s) in place of float(s.replace(",", ""))
CleanCellKeepCommas(val) ==
    IF IsFormula(val) THEN val
    ELSE LET s == Strip(PyStr(val)) IN
         IF s = <<>> THEN EmptyStr
         ELSE IF PyFloatOK(s) THEN EmptyStr ELSE val

CleanCell(val) ==
    IF IsFormula(val) THEN val
    ELSE LET s == Strip(PyStr(val)) IN
         IF s = <<>> THEN EmptyStr
         ELSE IF PyFloatOK(RemoveCommas(s)) THEN EmptyStr ELSE val

CleanRow(row) == [c \in DOMAIN row |-> CleanCell(row[c])]

Clean(formulas) == [r \in DOMAIN formulas |-> CleanRow(formulas[r])]

---------------------------------------------------------------------------
(* The remote store, as gspread presents it *)

Max(a, b) == IF a > b THEN a ELSE b

\* what the rendered view shows for a cell: a formula shows its computed
\* value, anything else its text
RenderCell(v) == IF IsFormula(v) THEN StrVal(<<"7">>) ELSE StrVal(PyStr(v))

Render(grid) == [r \in DOMAIN grid |-> [c \in DOMAIN grid[r] |-> RenderCell(grid[r][c])]]

Worksheet(title, formula, display) ==
    [title |-> title, formula |-> formula, display |-> display]

\* sh.worksheet(title): the position of the first tab with that title, 0 when
\* there is none (gspread raises WorksheetNotFound)
RECURSIVE FindSheetFrom(_, _, _)
FindSheetFrom(wss, title, i) ==
    IF i > Len(wss) THEN 0
    ELSE IF wss[i].title = title THEN i ELSE FindSheetFrom(wss, title, i + 1)

FindSheet(wss, title) == FindSheetFrom(wss, title, 1)

\* ws.update("A1", values): the cells values covers are replaced, the rest of
\* the sheet stays
WriteGrid(old, values) ==
    [r \in 1..Max(Len(old), Len(values)) |->
        LET o == IF r <= Len(old) THEN old[r] ELSE <<>>
            n == IF r <= Len(values) THEN values[r] ELSE <<>>
        IN [c \in 1..Max(Len(o), Len(n)) |-> IF c <= Len(n) THEN n[c] ELSE o[c]]]

UpdateSheet(wss, i, values) ==
    LET g == WriteGrid(wss[i].formula, values) IN
    [wss EXCEPT ![i] = Worksheet(wss[i].title, g, Render(g))]

---------------------------------------------------------------------------
(* load_companies and the lookup of a company *)

\* the time-to-live window the specification gives the company cache
TTL == 60

\* load_companies() with the cache of the specification: within TTL seconds
\* of the last load it returns what that load returned
LoadCompaniesCached ==
    IF reads > 0 /\ now - loadedAt < TTL
    THEN [records |-> loaded, remote |-> FALSE]
    ELSE [records |-> master, remote |-> TRUE]

\* load_companies(): the records it returns and whether it read the Master
\* Config remotely to get them
LoadCompanies == [records |-> master, remote |-> TRUE]

\* the bookkeeping of one load_companies() call
Loaded(l) ==
    /\ reads' = IF l.remote THEN reads + 1 ELSE reads
    /\ loadedAt' = IF l.remote THEN now ELSE loadedAt
    /\ loaded' = IF l.remote THEN l.records ELSE loaded

\* next((r for r in records if r.get("CompanyId") == company_id), None):
\* the position of the first match, 0 for None
RECURSIVE FindRecordFrom(_, _, _)
FindRecordFrom(records, company_id, i) ==
    IF i > Len(records) THEN 0
    ELSE IF records[i].CompanyId = company_id THEN i
         ELSE FindRecordFrom(records, company_id, i + 1)

\* the lookup taking the first record whatever its CompanyId
FindRecordFirst(records, company_id) == IF Len(records) > 0 THEN 1 ELSE 0

FindRecord(records, company_id) == FindRecordFrom(records, company_id, 1)

NoRecord == [CompanyId |-> "", CompanyName |-> "", SpreadsheetId |-> ""]

---------------------------------------------------------------------------
(* Requests and responses *)

ReqIds == {1, 2}

NoPayload ==
    [kind |-> "null", values |-> PyNone, editable |-> PyNone,
     source_sheet |-> "", new_sheet |-> ""]

\* the JSON body {"values": v, "editable": e}; a missing key is None
UpdatePayload(v, e) ==
    [kind |-> "dict", values |-> v, editable |-> e,
     source_sheet |-> "", new_sheet |-> ""]

\* the JSON body {"source_sheet": s, "new_sheet": n}; a missing key is ""
ClonePayload(s, n) ==
    [kind |-> "dict", values |-> PyNone, editable |-> PyNone,
     source_sheet |-> s, new_sheet |-> n]

\* a JSON body that is a non-empty array
ArrayPayload == [NoPayload EXCEPT !.kind = "array"]

\* sheet is <<>> without the query parameter, <<name>> with it
Request(op, company_id, sheet, payload) ==
    [op |-> op, company_id |-> company_id, sheet |-> sheet, payload |-> payload]

NoRequest == Request("none", "", <<>>, NoPayload)

NoResp ==
    [status |-> 0, error |-> <<>>, values |-> <<>>, editable |-> <<>>,
     rows |-> 0, sheet |-> ""]

\* jsonify({"error": ...}), status
ErrorResp(status, error) == [NoResp EXCEPT !.status = status, !.error = error]

\* an exception no handler catches: Flask answers 500
Uncaught(exception) == ErrorResp(500, <<exception>>)

\* `not sheet_name`: the parameter is missing or empty
NoSheetName(r) == r.sheet = <<>> \/ r.sheet = <<"">>

\* the tab a request names: ?sheet= for read and update, source_sheet for clone
SheetName(r) ==
    IF r.op = "clone" THEN r.payload.source_sheet
    ELSE IF r.sheet = <<>> THEN "" ELSE r.sheet[1]

Finish(p, r) ==
    /\ resp' = [resp EXCEPT ![p] = r]
    /\ pc' = [pc EXCEPT ![p] = "done"]

Goto(p, label) ==
    /\ pc' = [pc EXCEPT ![p] = label]
    /\ UNCHANGED resp

\* the remote calls a step issues, appended to the log in order
Call(p, names) ==
    calls' = calls \o [i \in 1..Len(names) |-> [p |-> p, call |-> names[i]]]

cacheVars == <<now, loadedAt, loaded, reads, listing>>
localVars == <<record, current, written, wrote>>

---------------------------------------------------------------------------
(* Steps shared by the three sheet handlers: the same code in each *)

\* records = load_companies(); record = next(...); the two checks on it
LookupCompany(p) ==
    /\ pc[p] = "lookup"
    /\ LET l == LoadCompanies
           i == FindRecord(l.records, req[p].company_id)
       IN /\ Loaded(l)
          /\ Call(p, IF l.remote THEN <<"load_companies">> ELSE <<>>)
          /\ \/ /\ i = 0
                /\ Finish(p, ErrorResp(404, <<"Company not found">>))
                /\ UNCHANGED record
             \/ /\ i # 0
                /\ l.records[i].SpreadsheetId = ""
                /\ Finish(p, ErrorResp(400, <<"SpreadsheetId missing in Master Config">>))
                /\ record' = [record EXCEPT ![p] = l.records[i]]
             \/ /\ i # 0
                /\ l.records[i].SpreadsheetId # ""
                /\ Goto(p, "open")
                /\ record' = [record EXCEPT ![p] = l.records[i]]
    /\ UNCHANGED <<master, spreadsheets, req, current, written, wrote, now, listing>>

\* sh = gc.open_by_key(spreadsheet_id); ws = sh.worksheet(name), any exception
\* of which is answered 404
OpenWorksheet(p, prefix, next) ==
    /\ pc[p] = "open"
    /\ LET name == SheetName(req[p])
           wss == spreadsheets[record[p].SpreadsheetId]
       IN /\ Call(p, <<"open_by_key", "worksheet">>)
          /\ \/ /\ FindSheet(wss, name) = 0
                /\ Finish(p, ErrorResp(404, <<prefix, name, "' not found: ", name>>))
             \/ /\ FindSheet(wss, name) # 0
                /\ Goto(p, next)
    /\ UNCHANGED <<master, spreadsheets, req, localVars, cacheVars>>

---------------------------------------------------------------------------
(* GET /sheet/<company_id>: get_company_sheet *)

GetValidate(p) ==
    /\ pc[p] = "start"
    /\ req[p].op = "get"
    /\ \/ /\ NoSheetName(req[p])
          /\ Finish(p, ErrorResp(400, <<"sheet parameter is required">>))
       \/ /\ ~NoSheetName(req[p])
          /\ Goto(p, "lookup")
    /\ UNCHANGED <<master, spreadsheets, req, localVars, calls, cacheVars>>

GetLookup(p) == req[p].op = "get" /\ LookupCompany(p)

GetOpen(p) == req[p].op = "get" /\ OpenWorksheet(p, "Sheet '", "read")

GetRead(p) ==
    /\ pc[p] = "read"
    /\ req[p].op = "get"
    /\ LET wss == spreadsheets[record[p].SpreadsheetId]
           ws == wss[FindSheet(wss, SheetName(req[p]))]
           values_display == ws.display
           values_formula == ws.formula
       IN /\ Call(p, <<"get_all_values", "get_values">>)
          /\ current' = [current EXCEPT ![p] = values_formula]
          /\ Finish(p, [NoResp EXCEPT !.status = 200,
                                      !.sheet = SheetName(req[p]),
                                      !.values = values_display,
                                      !.editable = BuildMask(values_display, values_formula)])
    /\ UNCHANGED <<master, spreadsheets, req, record, written, wrote, cacheVars>>

---------------------------------------------------------------------------
(* POST /sheet/<company_id>/update: update_company_sheet *)

\* update_company_sheet without its check of the `sheet` parameter
UpdateValidateUnchecked(p) ==
    /\ pc[p] = "start"
    /\ req[p].op = "update"
    /\ \/ /\ req[p].payload.kind = "array"
          /\ Finish(p, Uncaught("AttributeError"))
       \/ /\ req[p].payload.kind # "array"
          /\ ~IsList(req[p].payload.values) \/ ~IsList(req[p].payload.editable)
          /\ Finish(p, ErrorResp(400, <<"values and editable must be 2D lists">>))
       \/ /\ req[p].payload.kind # "array"
          /\ IsList(req[p].payload.values)
          /\ IsList(req[p].payload.editable)
          /\ Goto(p, "lookup")
    /\ UNCHANGED <<master, spreadsheets, req, localVars, calls, cacheVars>>

UpdateValidate(p) ==
    /\ pc[p] = "start"
    /\ req[p].op = "update"
    /\ \/ /\ NoSheetName(req[p])
          /\ Finish(p, ErrorResp(400, <<"sheet parameter is required">>))
       \/ /\ ~NoSheetName(req[p])
          /\ req[p].payload.kind = "array"
          /\ Finish(p, Uncaught("AttributeError"))
       \/ /\ ~NoSheetName(req[p])
          /\ req[p].payload.kind # "array"
          /\ ~IsList(req[p].payload.values) \/ ~IsList(req[p].payload.editable)
          /\ Finish(p, ErrorResp(400, <<"values and editable must be 2D lists">>))
       \/ /\ ~NoSheetName(req[p])
          /\ req[p].payload.kind # "array"
          /\ IsList(req[p].payload.values)
          /\ IsList(req[p].payload.editable)
          /\ Goto(p, "lookup")
    /\ UNCHANGED <<master, spreadsheets, req, localVars, calls, cacheVars>>

UpdateLookup(p) == req[p].op = "update" /\ LookupCompany(p)

UpdateOpen(p) == req[p].op = "update" /\ OpenWorksheet(p, "Sheet '", "read")

\* current = ws.get_values(value_render_option=ValueRenderOption.formula)
UpdateRead(p) ==
    /\ pc[p] = "read"
    /\ req[p].op = "update"
    /\ LET wss == spreadsheets[record[p].SpreadsheetId]
           ws == wss[FindSheet(wss, SheetName(req[p]))]
       IN current' = [current EXCEPT ![p] = ws.formula]
    /\ Call(p, <<"get_values">>)
    /\ Goto(p, "write")
    /\ UNCHANGED <<master, spreadsheets, req, record, written, wrote, cacheVars>>

\* the merge loop, then ws.update("A1", current, ...) and the answer
UpdateMergeWrite(p) ==
    /\ pc[p] = "write"
    /\ req[p].op = "update"
    /\ LET new_values == req[p].payload.values
           editable == req[p].payload.editable
           m == Merge(current[p], new_values, editable)
           ss == record[p].SpreadsheetId
           wss == spreadsheets[ss]
       IN \/ /\ m.raised
             /\ Finish(p, Uncaught("TypeError"))
             /\ UNCHANGED <<spreadsheets, current, written, wrote, calls>>
          \/ /\ ~m.raised
             /\ UNCHANGED current
             /\ spreadsheets' =
                  [spreadsheets EXCEPT ![ss] =
                      UpdateSheet(wss, FindSheet(wss, SheetName(req[p])), m.grid)]
             /\ written' = [written EXCEPT ![p] = m.grid]
             /\ wrote' = [wrote EXCEPT ![p] = TRUE]
             /\ Call(p, <<"update">>)
             /\ Finish(p, [NoResp EXCEPT !.status = 200,
                                         !.rows = MergeRowCount(current[p], new_values),
                                         !.sheet = SheetName(req[p])])
    /\ UNCHANGED <<master, req, record, cacheVars>>

---------------------------------------------------------------------------
(* POST /sheet/<company_id>/clone: clone_company_sheet *)

CloneValidate(p) ==
    /\ pc[p] = "start"
    /\ req[p].op = "clone"
    /\ \/ /\ req[p].payload.kind = "array"
          /\ Finish(p, Uncaught("AttributeError"))
       \/ /\ req[p].payload.kind # "array"
          /\ req[p].payload.source_sheet = "" \/ req[p].payload.new_sheet = ""
          /\ Finish(p, ErrorResp(400, <<"source_sheet and new_sheet are required">>))
       \/ /\ req[p].payload.kind # "array"
          /\ req[p].payload.source_sheet # ""
          /\ req[p].payload.new_sheet # ""
          /\ Goto(p, "lookup")
    /\ UNCHANGED <<master, spreadsheets, req, localVars, calls, cacheVars>>

CloneLookup(p) == req[p].op = "clone" /\ LookupCompany(p)

CloneOpen(p) == req[p].op = "clone" /\ OpenWorksheet(p, "Source sheet '", "duplicate")

\* sh.duplicate_sheet(src_ws.id, new_sheet_name=new_name); the store refuses a
\* title that is taken (APIError)
CloneDuplicate(p) ==
    /\ pc[p] = "duplicate"
    /\ req[p].op = "clone"
    /\ LET ss == record[p].SpreadsheetId
           wss == spreadsheets[ss]
           src_ws == wss[FindSheet(wss, req[p].payload.source_sheet)]
           new_name == req[p].payload.new_sheet
       IN /\ Call(p, <<"duplicate_sheet">>)
          /\ \/ /\ FindSheet(wss, new_name) # 0
                /\ Finish(p, ErrorResp(400, <<"Cannot create sheet '", new_name, "': ", "APIError">>))
                /\ UNCHANGED spreadsheets
             \/ /\ FindSheet(wss, new_name) = 0
                /\ spreadsheets' =
                     [spreadsheets EXCEPT ![ss] =
                         Append(wss, Worksheet(new_name, src_ws.formula, src_ws.display))]
                /\ Goto(p, "clean")
    /\ UNCHANGED <<master, req, localVars, cacheVars>>

\* formulas = new_ws_obj.get_values(...); the cleaned matrix; the write back
CloneCleanWrite(p) ==
    /\ pc[p] = "clean"
    /\ req[p].op = "clone"
    /\ LET ss == record[p].SpreadsheetId
           wss == spreadsheets[ss]
           i == FindSheet(wss, req[p].payload.new_sheet)
           formulas == wss[i].formula
           cleaned == Clean(formulas)
       IN /\ current' = [current EXCEPT ![p] = formulas]
          /\ spreadsheets' = [spreadsheets EXCEPT ![ss] = UpdateSheet(wss, i, cleaned)]
          /\ written' = [written EXCEPT ![p] = cleaned]
          /\ wrote' = [wrote EXCEPT ![p] = TRUE]
          /\ Call(p, <<"get_values", "update">>)
          /\ Finish(p, [NoResp EXCEPT !.status = 200,
                                      !.sheet = req[p].payload.new_sheet])
    /\ UNCHANGED <<master, req, record, cacheVars>>

---------------------------------------------------------------------------
(* GET /companies: get_companies, with time passing and the Master Config   *)
(* being edited in between                                                  *)

KeepCompany(r) == r.CompanyId # "" /\ r.SpreadsheetId # ""

\* the list comprehension of get_companies
CompanyList(records) == SelectSeq(records, KeepCompany)

GetCompanies ==
    /\ Len(listing) < MaxCalls
    /\ LET l == LoadCompanies IN
       /\ Loaded(l)
       /\ listing' = Append(listing,
                            [at |-> now,
                             first |-> reads = 0,
                             since |-> now - loadedAt,
                             remote |-> l.remote,
                             data |-> CompanyList(l.records),
                             config |-> CompanyList(master)])
    /\ UNCHANGED <<master, spreadsheets, req, pc, localVars, calls, resp, now>>

TickSteps == {TTL \div 2, TTL}

Tick(d) ==
    /\ now + d <= MaxTime
    /\ now' = now + d
    /\ UNCHANGED <<master, spreadsheets, req, pc, localVars, calls, resp,
                   loadedAt, loaded, reads, listing>>

Company(id, name, ss) == [CompanyId |-> id, CompanyName |-> name, SpreadsheetId |-> ss]

Master0 ==
    << Company("c1", "Acme", "ss1"), Company("c2", "Beta", ""),
       Company("", "Blank", "ss1") >>

Master1 == Append(Master0, Company("c3", "Gamma", "ss1"))

MasterConfigs == {Master0, Master1}

\* somebody edits the Master Config spreadsheet
EditMaster ==
    /\ \E m \in MasterConfigs \ {master} : master' = m
    /\ UNCHANGED <<spreadsheets, req, pc, localVars, calls, resp, cacheVars>>

---------------------------------------------------------------------------
(* Inputs *)

SeqsUpTo(A, n) == UNION {[1..k -> A] : k \in 0..n}

\* the grids over the cells A with at most `rows` rows and `cells` cells
RECURSIVE GridsOf(_, _, _)
GridsOf(A, rows, cells) ==
    IF rows = 0 THEN {<<>>}
    ELSE {<<>>} \cup
         UNION { { <<row>> \o g : g \in GridsOf(A, rows - 1, cells - Len(row)) } :
                 row \in SeqsUpTo(A, cells) }

Formula == StrVal(<<"=", "A", "1">>)
Label == StrVal(<<"A">>)
Number == IntVal(<<"1">>)
NewX == StrVal(<<"X">>)
NewY == StrVal(<<"Y">>)
Shown == StrVal(<<"7">>)
StrTrue == StrVal(<<"t", "r", "u", "e">>)

SheetA == << <<Label, Formula, Number>>, <<Formula, Label>> >>
SheetB == << <<Number, Label>>, <<>>, <<Formula, Label>> >>
SampleSheets == {SheetA, SheetB}

StoreWith(formula, display) ==
    [ss \in {"ss1"} |-> <<Worksheet("APR", formula, display)>>]

StoreOf(formula) == StoreWith(formula, Render(formula))

\* every way a request can be turned away
RoutingPayloads ==
    { NoPayload, ArrayPayload,
      UpdatePayload(PyNone, ToPy(<<<<PyTrue>>>>)),
      UpdatePayload(ToPy(<<<<NewX>>>>), Number),
      UpdatePayload(ToPy(<<<<NewX>>>>), ToPy(<<<<PyTrue>>>>)),
      UpdatePayload(ListVal(<<Number>>), ToPy(<<<<PyTrue>>>>)),
      UpdatePayload(ListVal(<<StrVal(<<"a", "b">>)>>), ToPy(<<<<PyTrue, PyTrue>>>>)),
      UpdatePayload(ToPy(<<<<NewX>>>>), ListVal(<<PyNone>>)),
      UpdatePayload(ToPy(<<<<>>>>), ListVal(<<PyNone>>)),
      ClonePayload("APR", "MAY"), ClonePayload("APR", "APR"),
      ClonePayload("MAY", "JUN"), ClonePayload("", "MAY"), ClonePayload("APR", "") }

RoutingRequests ==
    { Request(op, id, sheet, payload) :
        op \in {"get", "update", "clone"}, id \in {"c1", "c2", "c9"},
        sheet \in {<<>>, <<"">>, <<"APR">>, <<"MAY">>}, payload \in RoutingPayloads }

UpdateOf(v, e) == Request("update", "c1", <<"APR">>, UpdatePayload(ToPy(v), ToPy(e)))

\* a new value for every cell of a sheet
Cover(grid) == [r \in DOMAIN grid |-> [c \in DOMAIN grid[r] |-> NewX]]

EditableValues == {PyTrue, PyFalse, StrTrue, Number}

\* the grids within the bounds that the inputs are drawn from
EditableGrids == GridsOf(EditableValues, MaxRows, MaxCells)
BooleanGrids == GridsOf({PyTrue, PyFalse}, MaxRows, MaxCells)
NewValueGrids == GridsOf({NewX}, MaxRows, MaxCells)
FormulaGrids == GridsOf({Formula, Label, Number}, MaxRows, MaxCells)
FormulaNumberGrids == GridsOf({Formula, Number}, MaxRows, MaxCells)
DisplayGrids == GridsOf({Shown}, MaxRows, MaxCells)

Alphabet == {"=", "1", ",", ".", "-", " ", "A", "e"}

ToChars(str) ==
    CASE str = "Jan Sales" -> <<"J", "a", "n", " ", "S", "a", "l", "e", "s">>
      [] str = "=SUM(B1:B1)" -> <<"=", "S", "U", "M", "(", "B", "1", ":", "B", "1", ")">>
      [] str = "1,200" -> <<"1", ",", "2", "0", "0">>
      [] str = "Total" -> <<"T", "o", "t", "a", "l">>
      [] str = "N/A" -> <<"N", "/", "A">>
      [] str = "NaN" -> <<"N", "a", "N">>
      [] str = "" -> <<>>

\* the example of the specification's testable property 4
ExampleGrid ==
    << <<StrVal(ToChars("Jan Sales")), StrVal(ToChars("=SUM(B1:B1)")), StrVal(ToChars("1,200"))>>,
       <<StrVal(ToChars("Total")), StrVal(ToChars("")), StrVal(ToChars("N/A"))>> >>

ExampleCleaned ==
    << <<StrVal(ToChars("Jan Sales")), StrVal(ToChars("=SUM(B1:B1)")), StrVal(ToChars(""))>>,
       <<StrVal(ToChars("Total")), StrVal(ToChars("")), StrVal(ToChars("N/A"))>> >>

\* every sheet within the bounds, every one-cell sheet with a text within the
\* bound, and the example
CloneSheets ==
    FormulaGrids
      \cup { <<<<StrVal(s)>>>> : s \in SeqsUpTo(Alphabet, MaxStrLen) }
      \cup { <<<<IntVal(s)>>>> : s \in SeqsUpTo({"1"}, MaxStrLen) \ {<<>>} }
      \cup { ExampleGrid, <<<<StrVal(ToChars("NaN")), PyTrue>>>> }

\* two updates of the same sheet at once
RaceRequests(new) ==
    { Request("update", "c1", <<"APR">>,
              UpdatePayload(ToPy(<<<<new, new, new>>, <<new, new>>>>), ToPy(e))) :
        e \in { <<<<PyTrue>>>>, <<<<PyFalse, PyTrue>>>>, <<<<PyFalse, PyFalse, PyTrue>>>>,
                <<<<>>, <<PyTrue, PyTrue>>>> } }
      \cup { Request("update", id, sheet, payload) :
               id \in {"c1", "c2", "c9"}, sheet \in {<<>>, <<"APR">>, <<"MAY">>},
               payload \in { ArrayPayload, NoPayload,
                             UpdatePayload(ListVal(<<Number>>), ToPy(<<<<PyTrue>>>>)) } }

---------------------------------------------------------------------------
(* Specifications *)

InitWith(r1, r2, store) ==
    /\ master = Master0
    /\ spreadsheets = store
    /\ req = [p \in ReqIds |-> IF p = 1 THEN r1 ELSE r2]
    /\ pc = [p \in ReqIds |-> IF req[p].op = "none" THEN "done" ELSE "start"]
    /\ record = [p \in ReqIds |-> NoRecord]
    /\ current = [p \in ReqIds |-> <<>>]
    /\ written = [p \in ReqIds |-> <<>>]
    /\ wrote = [p \in ReqIds |-> FALSE]
    /\ calls = <<>>
    /\ resp = [p \in ReqIds |-> NoResp]
    /\ now = 0
    /\ loadedAt = 0
    /\ loaded = <<>>
    /\ reads = 0
    /\ listing = <<>>

\* every way a request can be turned away, on a sample sheet
InitRouting == \E r \in RoutingRequests : InitWith(r, NoRequest, StoreOf(SheetA))

\* updates of a sample sheet: a new value for every cell with every editable
\* grid within the bounds, and every grid of new values within the bounds
\* with every grid of booleans within the bounds
InitMerge ==
    \E sheet \in SampleSheets :
        \/ \E e \in EditableGrids :
              InitWith(UpdateOf(Cover(sheet), e), NoRequest, StoreOf(sheet))
        \/ \E v \in NewValueGrids, e \in BooleanGrids :
              InitWith(UpdateOf(v, e), NoRequest, StoreOf(sheet))

\* reads of a sheet: every formula view within the bounds as it renders, and
\* every formula view of formulas and numbers within the bounds with every
\* shape of the rendered view within the bounds
InitMask ==
    \/ \E f \in FormulaGrids :
          InitWith(Request("get", "c1", <<"APR">>, NoPayload), NoRequest, StoreOf(f))
    \/ \E f \in FormulaNumberGrids, d \in DisplayGrids :
          InitWith(Request("get", "c1", <<"APR">>, NoPayload), NoRequest, StoreWith(f, d))

InitClone ==
    \E g \in CloneSheets :
        InitWith(Request("clone", "c1", <<>>, ClonePayload("APR", "MAY")), NoRequest, StoreOf(g))

\* one request served on its own: a read, an update or a clone
Init == InitRouting \/ InitMerge \/ InitMask \/ InitClone

Handle(p) ==
    \/ GetValidate(p) \/ GetLookup(p) \/ GetOpen(p) \/ GetRead(p)
    \/ UpdateValidate(p) \/ UpdateLookup(p) \/ UpdateOpen(p)
    \/ UpdateRead(p) \/ UpdateMergeWrite(p)
    \/ CloneValidate(p) \/ CloneLookup(p) \/ CloneOpen(p)
    \/ CloneDuplicate(p) \/ CloneCleanWrite(p)

Next == Handle(1)

Spec == Init /\ [][Next]_vars

\* two update requests served at once, their remote calls interleaved
InitRace ==
    \E r1 \in RaceRequests(NewX), r2 \in RaceRequests(NewY) :
        InitWith(r1, r2, StoreOf(SheetA))

Update(p) ==
    \/ UpdateValidate(p) \/ UpdateLookup(p) \/ UpdateOpen(p)
    \/ UpdateRead(p) \/ UpdateMergeWrite(p)

NextRace == \E p \in ReqIds : Update(p)

SpecRace == InitRace /\ [][NextRace]_vars

\* GET /companies called again and again while time passes
InitCache == InitWith(NoRequest, NoRequest, StoreOf(SheetA))

NextCache == GetCompanies \/ (\E d \in TickSteps : Tick(d)) \/ EditMaster

SpecCache == InitCache /\ [][NextCache]_vars

---------------------------------------------------------------------------
(* What the claims speak of *)

\* request p issued the remote call `name`
Issued(p, name) == \E i \in DOMAIN calls : calls[i] = [p |-> p, call |-> name]

\* request p issued no remote call at all
NoCalls(p) == \A i \in DOMAIN calls : calls[i].p # p

\* a sequence of sequences
IsGrid(v) == IsList(v) /\ \A i \in DOMAIN v.items : IsList(v.items[i])

\* an update whose merge ran to its end and was written back
Merged(p) == req[p].op = "update" /\ wrote[p]

\* position (r, c), counted from 1, lies in v, a list of rows
Present(v, r, c) ==
    /\ r <= PyLen(v)
    /\ HasLen(PyIndex(v, r - 1))
    /\ c <= PyLen(PyIndex(v, r - 1))

At(v, r, c) == PyIndex(PyIndex(v, r - 1), c - 1)

---------------------------------------------------------------------------
\* C1: in the merge of update, every cell of the grid read from the store
\* whose entry in `editable` is absent (row or column out of range) or is
\* anything but the boolean True (the string "true" and the integer 1
\* included) has in the merged grid the value that was read, whatever
\* `values` holds there.
C1_UneditableCellsKept ==
    \A p \in ReqIds :
        Merged(p) =>
            \A r \in DOMAIN current[p] : \A c \in DOMAIN current[p][r] :
                (\/ ~Present(req[p].payload.editable, r, c)
                 \/ At(req[p].payload.editable, r, c) # PyTrue)
                    => written[p][r][c] = current[p][r][c]

\* a merge that met, at cells where `values` offers a different value, the
\* string "true", the integer 1 and a missing entry, and overwrote another cell
C1_Witness ==
    \E p \in ReqIds :
        /\ Merged(p)
        /\ \E r \in DOMAIN current[p] : \E c \in DOMAIN current[p][r] :
              /\ Present(req[p].payload.values, r, c)
              /\ Present(req[p].payload.editable, r, c)
              /\ At(req[p].payload.editable, r, c) = StrTrue
              /\ At(req[p].payload.values, r, c) # current[p][r][c]
              /\ written[p][r][c] = current[p][r][c]
        /\ \E r \in DOMAIN current[p] : \E c \in DOMAIN current[p][r] :
              /\ Present(req[p].payload.values, r, c)
              /\ Present(req[p].payload.editable, r, c)
              /\ At(req[p].payload.editable, r, c) = Number
              /\ written[p][r][c] = current[p][r][c]
        /\ \E r \in DOMAIN current[p] : \E c \in DOMAIN current[p][r] :
              /\ Present(req[p].payload.values, r, c)
              /\ ~Present(req[p].payload.editable, r, c)
              /\ written[p][r][c] = current[p][r][c]
        /\ \E r \in DOMAIN current[p] : \E c \in DOMAIN current[p][r] :
              written[p][r][c] # current[p][r][c]

\* C2: update keeps formulas untouched: every cell that holds a formula in
\* the grid read from the store has the same value in the grid written back,
\* whatever `values` and `editable` the client sent.
C2_FormulasUntouched ==
    \A p \in ReqIds :
        Merged(p) =>
            \A r \in DOMAIN current[p] : \A c \in DOMAIN current[p][r] :
                IsFormula(current[p][r][c]) => written[p][r][c] = current[p][r][c]

\* C3: the mask the sheet read returns has min(len(display), len(formula))
\* rows, row r has min(len(display[r]), len(formula[r])) entries, and an
\* entry is false exactly when the formula view holds, at its place, a
\* string that starts with "=".
C3_MaskShapeAndValues ==
    \A p \in ReqIds :
        (req[p].op = "get" /\ resp[p].status = 200) =>
            LET display == resp[p].values
                formula == current[p]
                mask == resp[p].editable
            IN /\ Len(mask) = Min(Len(display), Len(formula))
               /\ \A r \in DOMAIN mask :
                     /\ Len(mask[r]) = Min(Len(display[r]), Len(formula[r]))
                     /\ \A c \in DOMAIN mask[r] :
                           mask[r][c] = FALSE
                             <=> (/\ formula[r][c].t = "str"
                                  /\ formula[r][c].s # <<>>
                                  /\ Head(formula[r][c].s) = "=")

\* a read whose two views differ in their number of rows and in the length
\* of a row, with a locked and an editable cell in the mask
C3_Witness ==
    \E p \in ReqIds :
        /\ req[p].op = "get"
        /\ resp[p].status = 200
        /\ Len(resp[p].values) # Len(current[p])
        /\ \E r \in DOMAIN resp[p].editable :
              /\ Len(resp[p].values[r]) # Len(current[p][r])
              /\ \E c, d \in DOMAIN resp[p].editable[r] :
                    resp[p].editable[r][c] /\ ~resp[p].editable[r][d]

\* C4: the grid clone writes back has the shape of the grid read from the
\* duplicated sheet, and cell by cell: a formula is kept; a cell whose trimmed
\* string form is empty becomes the empty string; a cell whose trimmed text,
\* commas removed, parses as a number becomes the empty string; any other
\* cell is kept.  The example of the specification comes out as it says.
C4_CleanedGrid ==
    \A p \in ReqIds :
        (req[p].op = "clone" /\ wrote[p]) =>
            LET formulas == current[p]
                cleaned == written[p]
            IN /\ Len(cleaned) = Len(formulas)
               /\ \A r \in DOMAIN formulas :
                     /\ Len(cleaned[r]) = Len(formulas[r])
                     /\ \A c \in DOMAIN formulas[r] :
                           LET val == formulas[r][c]
                               s == Strip(PyStr(val))
                           IN /\ IsFormula(val) => cleaned[r][c] = val
                              /\ (~IsFormula(val) /\ s = <<>>)
                                    => cleaned[r][c] = EmptyStr
                              /\ (~IsFormula(val) /\ s # <<>> /\ PyFloatOK(RemoveCommas(s)))
                                    => cleaned[r][c] = EmptyStr
                              /\ (~IsFormula(val) /\ s # <<>> /\ ~PyFloatOK(RemoveCommas(s)))
                                    => cleaned[r][c] = val
               /\ formulas = ExampleGrid => cleaned = ExampleCleaned

\* the example of the specification, cloned and cleaned
C4_Witness ==
    \E p \in ReqIds :
        /\ req[p].op = "clone"
        /\ wrote[p]
        /\ current[p] = ExampleGrid
        /\ written[p] = ExampleCleaned
        /\ written[p] # current[p]

Resolves(p) ==
    /\ req[p].sheet # <<>>
    /\ \E i \in DOMAIN master :
          /\ master[i].CompanyId = req[p].company_id
          /\ master[i].SpreadsheetId # ""
          /\ \E k \in DOMAIN spreadsheets[master[i].SpreadsheetId] :
                spreadsheets[master[i].SpreadsheetId][k].title = req[p].sheet[1]

\* C6: an update (of a sheet that exists) whose `values` or `editable` is not
\* a sequence of sequences is answered with the request error, status 400,
\* never with an uncaught exception, and nothing of it is merged and written.
C6_MalformedGridRejected ==
    \A p \in ReqIds :
        (/\ req[p].op = "update"
         /\ pc[p] = "done"
         /\ Resolves(p)
         /\ req[p].payload.kind = "dict"
         /\ ~IsGrid(req[p].payload.values) \/ ~IsGrid(req[p].payload.editable))
            => resp[p].status = 400 /\ ~wrote[p]

\* C7: the merge keeps the shape of the grid read from the store: as many
\* rows, each as long as before, and every cell at a row beyond `values` or a
\* column beyond its row of `values` unchanged; and with `values` and
\* `editable` grids, of whatever row and column lengths, the merge does not
\* fail.
C7_ShapePreserved ==
    \A p \in ReqIds :
        /\ Merged(p) =>
              /\ Len(written[p]) = Len(current[p])
              /\ \A r \in DOMAIN current[p] :
                    /\ Len(written[p][r]) = Len(current[p][r])
                    /\ \A c \in DOMAIN current[p][r] :
                          ~Present(req[p].payload.values, r, c)
                              => written[p][r][c] = current[p][r][c]
        /\ (/\ req[p].op = "update"
            /\ pc[p] = "done"
            /\ Issued(p, "get_values")
            /\ IsGrid(req[p].payload.values)
            /\ IsGrid(req[p].payload.editable))
              => /\ wrote[p]
                 /\ resp[p].status = 200
                 /\ resp[p].rows = Min(Len(current[p]), PyLen(req[p].payload.values))

\* a merge of grids with fewer rows than the sheet, rows of unequal lengths
\* and a row shorter than the sheet's, that overwrote a cell
C7_Witness ==
    \E p \in ReqIds :
        /\ Merged(p)
        /\ IsGrid(req[p].payload.values)
        /\ IsGrid(req[p].payload.editable)
        /\ PyLen(req[p].payload.values) = 2
        /\ PyLen(req[p].payload.values) < Len(current[p])
        /\ PyLen(PyIndex(req[p].payload.values, 0)) # PyLen(PyIndex(req[p].payload.values, 1))
        /\ \E r \in 1..2 :
              /\ PyLen(PyIndex(req[p].payload.values, r - 1)) < Len(current[p][r])
              /\ PyLen(PyIndex(req[p].payload.values, r - 1)) > 0
        /\ PyLen(req[p].payload.editable) # PyLen(req[p].payload.values)
        /\ \E r \in DOMAIN current[p] : \E c \in DOMAIN current[p][r] :
              written[p][r][c] # current[p][r][c]

\* C8: a sheet read or update without the `sheet` query parameter issues no
\* remote call, and ends with status 400.
C8_MissingSheetParameter ==
    \A p \in ReqIds :
        (req[p].op \in {"get", "update"} /\ req[p].sheet = <<>>) =>
            /\ NoCalls(p)
            /\ ~wrote[p]
            /\ pc[p] = "done" =>
                  /\ resp[p].status = 400
                  /\ resp[p].error = <<"sheet parameter is required">>

\* an update of a known company with well-formed grids but without the
\* parameter, answered
C8_Witness ==
    \E p \in ReqIds :
        /\ req[p].op = "update"
        /\ req[p].sheet = <<>>
        /\ IsGrid(req[p].payload.values)
        /\ IsGrid(req[p].payload.editable)
        /\ req[p].company_id = "c1"
        /\ pc[p] = "done"
        /\ resp[p].status = 400

\* the company id of request p is in no row of the Master Config
UnknownCompany(p) ==
    \A i \in DOMAIN master : master[i].CompanyId # req[p].company_id

\* the company of request p has a spreadsheet, which has no tab of the name
\* the request gives
UnknownSheet(p) ==
    /\ req[p].sheet # <<>>
    /\ \E i \in DOMAIN master :
          /\ master[i].CompanyId = req[p].company_id
          /\ master[i].SpreadsheetId # ""
          /\ \A k \in DOMAIN spreadsheets[master[i].SpreadsheetId] :
                spreadsheets[master[i].SpreadsheetId][k].title # req[p].sheet[1]

NotFound(p) ==
    /\ UnknownCompany(p) =>
          /\ resp[p].status = 404
          /\ resp[p].error = <<"Company not found">>
          /\ ~wrote[p] /\ ~Issued(p, "update")
    /\ UnknownSheet(p) =>
          /\ resp[p].status = 404
          /\ \E k \in DOMAIN resp[p].error : resp[p].error[k] = req[p].sheet[1]
          /\ ~wrote[p] /\ ~Issued(p, "update")

\* C9, as stated: a sheet read or update of a company id that is not in the
\* Master Config is answered 404 "Company not found", one of a sheet name the
\* company's spreadsheet does not hold is answered 404 with a message that
\* contains the name, and neither writes to the store.
C9_NotFound ==
    \A p \in ReqIds :
        (req[p].op \in {"get", "update"} /\ pc[p] = "done") => NotFound(p)

\* the checks a handler makes before it looks the company up: a non-empty
\* `sheet` parameter and, for update, a JSON object whose `values` and
\* `editable` are lists
PassedValidation(p) ==
    /\ req[p].sheet # <<>>
    /\ req[p].sheet # <<"">>
    /\ req[p].op = "update" =>
          /\ req[p].payload.kind # "array"
          /\ IsList(req[p].payload.values)
          /\ IsList(req[p].payload.editable)

\* C9, amended: the same, of a request that passes the handler's validation
\* (a non-empty `sheet` parameter; for update a JSON object body whose
\* `values` and `editable` are lists).
C9_NotFoundOnceValidated ==
    \A p \in ReqIds :
        (/\ req[p].op \in {"get", "update"}
         /\ pc[p] = "done"
         /\ PassedValidation(p)) => NotFound(p)

\* an update of an unknown company and a read of an unknown sheet, answered
C9_Witness ==
    \E p \in ReqIds :
        /\ pc[p] = "done"
        /\ PassedValidation(p)
        /\ resp[p].status = 404
        /\ \/ req[p].op = "update" /\ UnknownCompany(p)
           \/ req[p].op = "get" /\ UnknownSheet(p) /\ ~UnknownCompany(p)

\* the place of request p's remote call `name` in the log
Place(p, name) == CHOOSE i \in DOMAIN calls : calls[i] = [p |-> p, call |-> name]

\* C10: of two updates of one sheet served at once, a cell that one wrote
\* between the other's read and the other's write, and that the other did not
\* mark editable, holds the first one's value once both have finished.
C10_NoLostUpdate ==
    (\A p \in ReqIds : Merged(p) /\ pc[p] = "done") =>
        \A p, q \in ReqIds :
            (/\ p # q
             /\ Place(p, "get_values") < Place(q, "update")
             /\ Place(q, "update") < Place(p, "update")) =>
                LET sheet == spreadsheets["ss1"][1].formula IN
                \A r \in DOMAIN sheet : \A c \in DOMAIN sheet[r] :
                    (/\ written[q][r][c] # current[q][r][c]
                     /\ \/ ~Present(req[p].payload.editable, r, c)
                        \/ At(req[p].payload.editable, r, c) # PyTrue)
                        => sheet[r][c] = written[q][r][c]

=============================================================================
